---- MODULE Spec2Model ----
(***************************************************************************)
(* primitive_db: a file-backed tabular store driven by a line-oriented     *)
(* command interpreter (engine.run) over the table functions of core.py.   *)
(*                                                                         *)
(* Python strings are modelled as sequences of one-character strings, so   *)
(* that splitting, lower-casing, integer parsing and str() are computed,   *)
(* not assumed.  Python values are records [t, n, s]: t is the Python type *)
(* ("int", "bool" or "str"), n the numeric value (bool: 0/1) and s the     *)
(* characters of a str.                                                    *)
(***************************************************************************)
EXTENDS Integers, Sequences, FiniteSets, TLC

VARIABLES metaFile, dataFiles, cache, pc, last, call

vars == <<metaFile, dataFiles, cache, pc, last, call>>

(***************************************************************************)
(* Bounds of the model.                                                    *)
(***************************************************************************)
MaxRows == 2
MaxId == 3

(***************************************************************************)
(* Characters and strings.                                                 *)
(***************************************************************************)
UpperLetters == <<"A","B","C","D","E","F","G","H","I","J","K","L","M",
                  "N","O","P","Q","R","S","T","U","V","W","X","Y","Z">>
LowerLetters == <<"a","b","c","d","e","f","g","h","i","j","k","l","m",
                  "n","o","p","q","r","s","t","u","v","w","x","y","z">>
Digits == <<"0","1","2","3","4","5","6","7","8","9">>

\* the first index of c in seq, 0 when it is absent
RECURSIVE IndexFrom(_, _, _)
IndexFrom(c, seq, i) ==
    IF i > Len(seq) THEN 0 ELSE IF seq[i] = c THEN i ELSE IndexFrom(c, seq, i + 1)
IndexOf(c, seq) == IndexFrom(c, seq, 1)

\* str.lower()
ToLower == [c \in {UpperLetters[i] : i \in 1..26} |-> LowerLetters[IndexOf(c, UpperLetters)]]
LowerChar(c) == IF c \in DOMAIN ToLower THEN ToLower[c] ELSE c
Lower(s) == [i \in 1..Len(s) |-> LowerChar(s[i])]

DigitValue == [c \in {Digits[i] : i \in 1..10} |-> IndexOf(c, Digits) - 1]
IsDigit(c) == c \in DOMAIN DigitValue
DigitVal(c) == DigitValue[c]

\* str.strip(): leading and trailing blanks removed
RECURSIVE LStrip(_)
LStrip(s) == IF s # <<>> /\ s[1] = " " THEN LStrip(Tail(s)) ELSE s
RECURSIVE RStrip(_)
RStrip(s) == IF s # <<>> /\ s[Len(s)] = " " THEN RStrip(SubSeq(s, 1, Len(s) - 1)) ELSE s
Strip(s) == RStrip(LStrip(s))

\* str.split(sep, 1): the text before the first sep and the text after it
SplitFirst(s, sep) ==
    LET i == IndexOf(sep, s)
    IN  IF i = 0 THEN <<s>> ELSE <<SubSeq(s, 1, i - 1), SubSeq(s, i + 1, Len(s))>>

Contains(s, c) == IndexOf(c, s) > 0

(***************************************************************************)
(* Python values.                                                          *)
(***************************************************************************)
PyInt(i) == [t |-> "int", n |-> i, s |-> <<>>]
PyBool(b) == [t |-> "bool", n |-> IF b THEN 1 ELSE 0, s |-> <<>>]
PyStr(s) == [t |-> "str", n |-> 0, s |-> s]

\* isinstance(value, int): bool is a subclass of int
IsInstanceInt(v) == v.t \in {"int", "bool"}
IsInstanceBool(v) == v.t = "bool"
IsInstanceStr(v) == v.t = "str"

\* Python ==  (and its negation !=) on int, bool and str objects:
\* numbers compare by value (True == 1, False == 0), a str equals only a str.
PyEq(a, b) ==
    IF a.t = "str" \/ b.t = "str"
    THEN a.t = b.t /\ a.s = b.s
    ELSE a.n = b.n

\* int(text): blanks stripped, an optional sign, then digits which single
\* underscores may separate.
IntBody(s) == IF s # <<>> /\ s[1] \in {"+", "-"} THEN Tail(s) ELSE s
IsIntText(text) ==
    LET b == IntBody(Strip(text))
    IN  /\ b # <<>>
        /\ IsDigit(b[1]) /\ IsDigit(b[Len(b)])
        /\ \A i \in 1..Len(b) : IsDigit(b[i]) \/ b[i] = "_"
        /\ \A i \in 1..(Len(b) - 1) : ~(b[i] = "_" /\ b[i + 1] = "_")
RECURSIVE DigitsValue(_, _)
DigitsValue(b, acc) ==
    IF b = <<>> THEN acc
    ELSE IF b[1] = "_" THEN DigitsValue(Tail(b), acc)
    ELSE DigitsValue(Tail(b), 10 * acc + DigitVal(b[1]))
IntOfText(text) ==
    LET st == Strip(text)
        v == DigitsValue(IntBody(st), 0)
    IN  IF st[1] = "-" THEN 0 - v ELSE v

\* str(value)
RECURSIVE NatText(_)
NatText(n) == IF n < 10 THEN <<Digits[n + 1]>> ELSE NatText(n \div 10) \o <<Digits[(n % 10) + 1]>>
StrOf(v) ==
    IF v.t = "str" THEN v.s
    ELSE IF v.t = "bool" THEN (IF v.n = 1 THEN <<"T","r","u","e">> ELSE <<"F","a","l","s","e">>)
    ELSE IF v.n < 0 THEN <<"-">> \o NatText(0 - v.n) ELSE NatText(v.n)

(***************************************************************************)
(* parser.py                                                               *)
(***************************************************************************)
TrueText == <<"t","r","u","e">>
FalseText == <<"f","a","l","s","e">>

convert_value(value_str) ==
    LET st == Strip(value_str)
    IN  IF Lower(st) \in {TrueText, FalseText} THEN PyBool(Lower(st) = TrueText)
        ELSE IF IsIntText(st) THEN PyInt(IntOfText(st))
        ELSE IF st # <<>> /\ st[1] = "\"" /\ st[Len(st)] = "\"" THEN PyStr(SubSeq(st, 2, Len(st) - 1))
        ELSE IF st # <<>> /\ st[1] = "'" /\ st[Len(st)] = "'" THEN PyStr(SubSeq(st, 2, Len(st) - 1))
        ELSE PyStr(st)

\* parse_where_clause: None for an empty text, ValueError without "=",
\* otherwise the one-entry dict {column: convert_value(value)}.
\* A dict is a sequence of [col, val] entries with distinct col, in insertion order.
parse_where_clause(where_str) ==
    IF where_str = <<>> THEN [raised |-> FALSE, none |-> TRUE, items |-> <<>>]
    ELSE LET parts == SplitFirst(where_str, "=")
         IN  IF Len(parts) # 2 THEN [raised |-> TRUE, none |-> FALSE, items |-> <<>>]
             ELSE [raised |-> FALSE, none |-> FALSE,
                   items |-> <<[col |-> Strip(parts[1]), val |-> convert_value(Strip(parts[2]))]>>]

\* result[column] = value on a dict
DictSet(items, column, value) ==
    IF \E i \in 1..Len(items) : items[i].col = column
    THEN [i \in 1..Len(items) |-> IF items[i].col = column THEN [col |-> column, val |-> value] ELSE items[i]]
    ELSE Append(items, [col |-> column, val |-> value])

DropTrailingComma(s) == IF s # <<>> /\ s[Len(s)] = "," THEN SubSeq(s, 1, Len(s) - 1) ELSE s

\* The while loop of parse_set_clause over parts, from index i with the dict built so far.
RECURSIVE SetLoop(_, _, _)
SetLoop(parts, i, result) ==
    IF i > Len(parts) THEN [raised |-> FALSE, items |-> result]
    ELSE IF parts[i] = <<",">> THEN SetLoop(parts, i + 1, result)
    ELSE IF i + 1 <= Len(parts) /\ parts[i + 1] = <<"=">>
    THEN IF i + 2 <= Len(parts)
         THEN SetLoop(parts, i + 3,
                      DictSet(result, Strip(parts[i]), convert_value(DropTrailingComma(Strip(parts[i + 2])))))
         ELSE [raised |-> TRUE, items |-> <<>>]
    ELSE IF Contains(parts[i], "=")
    THEN LET eq_parts == SplitFirst(parts[i], "=")
         IN  SetLoop(parts, i + 1,
                     DictSet(result, Strip(eq_parts[1]), convert_value(DropTrailingComma(Strip(eq_parts[2])))))
    ELSE SetLoop(parts, i + 1, result)

\* parse_set_clause, from the parts its shlex.split call yields: {} for an
\* empty text, ValueError when no assignment was found.
parse_set_clause(parts) ==
    IF parts = <<>> THEN [raised |-> FALSE, items |-> <<>>]
    ELSE LET r == SetLoop(parts, 1, <<>>)
         IN  IF r.raised \/ r.items = <<>> THEN [raised |-> TRUE, items |-> <<>>] ELSE r

(***************************************************************************)
(* constants.py                                                            *)
(***************************************************************************)
VALID_TYPES == {<<"i","n","t">>, <<"s","t","r">>, <<"b","o","o","l">>}

(***************************************************************************)
(* core.py                                                                 *)
(*                                                                         *)
(* The catalog (metadata) is a Python dict from table name to the list of  *)
(* column specs: a sequence of [name, cols] entries in insertion order.    *)
(* A row is a dict from column name to value: a function.                  *)
(* A function wrapped by handle_db_errors yields [none |-> TRUE] with the  *)
(* error kind in err when it raised, none |-> FALSE and the value else.    *)
(***************************************************************************)
ID_int == <<"I","D",":","i","n","t">>
ID == <<"I","D">>

InCatalog(metadata, table_name) == \E i \in 1..Len(metadata) : metadata[i].name = table_name
CatalogGet(metadata, table_name) ==
    metadata[CHOOSE i \in 1..Len(metadata) : metadata[i].name = table_name].cols
CatalogDel(metadata, table_name) ==
    LET keep(e) == e.name # table_name IN SelectSeq(metadata, keep)

\* The validation loop of create_table: the first offending column decides the error.
ColumnError(column) ==
    IF ~Contains(column, ":") THEN "MalformedColumnSpec"
    ELSE IF SplitFirst(column, ":")[2] \notin VALID_TYPES THEN "UnsupportedType"
    ELSE ""
FirstColumnError(columns) ==
    IF \E i \in 1..Len(columns) : ColumnError(columns[i]) # ""
    THEN ColumnError(columns[CHOOSE i \in 1..Len(columns) :
                        ColumnError(columns[i]) # "" /\ \A j \in 1..(i - 1) : ColumnError(columns[j]) = ""])
    ELSE ""

\* Variants of create_table with one fault each, used to test the properties.
\* The ID column is put after the declared columns.
create_table_IdLast(metadata, table_name, columns) ==
    IF InCatalog(metadata, table_name)
    THEN [none |-> TRUE, err |-> "DuplicateTable", value |-> <<>>, arg |-> metadata]
    ELSE IF FirstColumnError(columns) # ""
    THEN [none |-> TRUE, err |-> FirstColumnError(columns), value |-> <<>>, arg |-> metadata]
    ELSE LET table_columns == columns \o <<ID_int>>
             updated == Append(metadata, [name |-> table_name, cols |-> table_columns])
         IN  [none |-> FALSE, err |-> "", value |-> updated, arg |-> updated]

\* The column specs are validated before the name is looked up.
create_table_ValidatesFirst(metadata, table_name, columns) ==
    IF FirstColumnError(columns) # ""
    THEN [none |-> TRUE, err |-> FirstColumnError(columns), value |-> <<>>, arg |-> metadata]
    ELSE IF InCatalog(metadata, table_name)
    THEN [none |-> TRUE, err |-> "DuplicateTable", value |-> <<>>, arg |-> metadata]
    ELSE LET table_columns == <<ID_int>> \o columns
             updated == Append(metadata, [name |-> table_name, cols |-> table_columns])
         IN  [none |-> FALSE, err |-> "", value |-> updated, arg |-> updated]

\* The entry is added to a copy of the catalog, the argument is left alone.
create_table_Copies(metadata, table_name, columns) ==
    IF InCatalog(metadata, table_name)
    THEN [none |-> TRUE, err |-> "DuplicateTable", value |-> <<>>, arg |-> metadata]
    ELSE IF FirstColumnError(columns) # ""
    THEN [none |-> TRUE, err |-> FirstColumnError(columns), value |-> <<>>, arg |-> metadata]
    ELSE LET table_columns == <<ID_int>> \o columns
             updated == Append(metadata, [name |-> table_name, cols |-> table_columns])
         IN  [none |-> FALSE, err |-> "", value |-> updated, arg |-> metadata]

\* create_table: value is the returned dict, arg the dict object that was
\* passed in as it is after the call (the function assigns into it).
create_table(metadata, table_name, columns) ==
    IF InCatalog(metadata, table_name)
    THEN [none |-> TRUE, err |-> "DuplicateTable", value |-> <<>>, arg |-> metadata]
    ELSE IF FirstColumnError(columns) # ""
    THEN [none |-> TRUE, err |-> FirstColumnError(columns), value |-> <<>>, arg |-> metadata]
    ELSE LET table_columns == <<ID_int>> \o columns
             updated == Append(metadata, [name |-> table_name, cols |-> table_columns])
         IN  [none |-> FALSE, err |-> "", value |-> updated, arg |-> updated]

\* A variant of the confirmation test with a fault: only the first character
\* of the answer is looked at.
Confirmed_FirstLetter(confirmation) == confirmation # <<>> /\ Lower(<<confirmation[1]>>) = <<"y">>

\* confirm_action: the wrapped function runs only when the answer lower-cased is "y"
Confirmed(confirmation) == Lower(confirmation) = <<"y">>

\* A variant of drop_table with a fault: the entry added last is removed,
\* whatever the name.
drop_table_PopsLast(metadata, table_name, confirmation) ==
    IF ~Confirmed(confirmation)
    THEN [none |-> TRUE, err |-> "Cancelled", value |-> <<>>, arg |-> metadata]
    ELSE IF ~InCatalog(metadata, table_name)
    THEN [none |-> TRUE, err |-> "UnknownTable", value |-> <<>>, arg |-> metadata]
    ELSE [none |-> FALSE, err |-> "", value |-> SubSeq(metadata, 1, Len(metadata) - 1),
          arg |-> SubSeq(metadata, 1, Len(metadata) - 1)]

drop_table(metadata, table_name, confirmation) ==
    IF ~Confirmed(confirmation)
    THEN [none |-> TRUE, err |-> "Cancelled", value |-> <<>>, arg |-> metadata]
    ELSE IF ~InCatalog(metadata, table_name)
    THEN [none |-> TRUE, err |-> "UnknownTable", value |-> <<>>, arg |-> metadata]
    ELSE [none |-> FALSE, err |-> "", value |-> CatalogDel(metadata, table_name),
          arg |-> CatalogDel(metadata, table_name)]

list_tables(metadata) == [i \in 1..Len(metadata) |-> metadata[i].name]

\* get_column_schema is not wrapped: raised means the ValueError leaves the function.
get_column_schema(metadata, table_name) ==
    IF ~InCatalog(metadata, table_name) THEN [raised |-> TRUE, value |-> <<>>]
    ELSE LET cols == CatalogGet(metadata, table_name)
         IN  [raised |-> FALSE,
              value |-> [i \in 1..Len(cols) |-> [name |-> SplitFirst(cols[i], ":")[1],
                                                 type |-> SplitFirst(cols[i], ":")[2]]]]

validate_value_type(value, expected_type) ==
    IF expected_type = <<"i","n","t">>
    THEN IF IsInstanceInt(value) THEN [raised |-> FALSE, err |-> "", value |-> value]
         ELSE IF IsInstanceStr(value) /\ IsIntText(value.s)
              THEN [raised |-> FALSE, err |-> "", value |-> PyInt(IntOfText(value.s))]
         ELSE [raised |-> TRUE, err |-> "InvalidValue", value |-> value]
    ELSE IF expected_type = <<"b","o","o","l">>
    THEN IF IsInstanceBool(value) THEN [raised |-> FALSE, err |-> "", value |-> value]
         ELSE IF IsInstanceStr(value) /\ Lower(value.s) \in {TrueText, FalseText}
              THEN [raised |-> FALSE, err |-> "", value |-> PyBool(Lower(value.s) = TrueText)]
         ELSE [raised |-> TRUE, err |-> "InvalidValue", value |-> value]
    ELSE IF expected_type = <<"s","t","r">>
    THEN [raised |-> FALSE, err |-> "", value |-> PyStr(StrOf(value))]
    ELSE [raised |-> TRUE, err |-> "UnsupportedType", value |-> value]

\* A variant of insert with a fault: the first column of the schema is not
\* skipped, so the ID column counts as a data column.
insert_KeepsId(metadata, table_name, values) ==
    IF ~InCatalog(metadata, table_name)
    THEN [none |-> TRUE, err |-> "UnknownTable", value |-> <<>>]
    ELSE LET columns == get_column_schema(metadata, table_name).value
             data_columns == columns
             validated == [i \in 1..Len(values) |->
                             validate_value_type(values[i], data_columns[i].type)]
         IN  IF Len(values) # Len(data_columns)
             THEN [none |-> TRUE, err |-> "ArityMismatch", value |-> <<>>]
             ELSE IF \E i \in 1..Len(values) : validated[i].raised
             THEN [none |-> TRUE,
                   err |-> validated[CHOOSE i \in 1..Len(values) :
                               validated[i].raised /\ \A j \in 1..(i - 1) : ~validated[j].raised].err,
                   value |-> <<>>]
             ELSE [none |-> FALSE, err |-> "", value |-> [i \in 1..Len(values) |-> validated[i].value]]

\* insert: validates the values against the data columns (the schema without
\* its first column); the value is the list of coerced values.
insert(metadata, table_name, values) ==
    IF ~InCatalog(metadata, table_name)
    THEN [none |-> TRUE, err |-> "UnknownTable", value |-> <<>>]
    ELSE LET columns == get_column_schema(metadata, table_name).value
             data_columns == Tail(columns)
             validated == [i \in 1..Len(values) |->
                             validate_value_type(values[i], data_columns[i].type)]
         IN  IF Len(values) # Len(data_columns)
             THEN [none |-> TRUE, err |-> "ArityMismatch", value |-> <<>>]
             ELSE IF \E i \in 1..Len(values) : validated[i].raised
             THEN [none |-> TRUE,
                   err |-> validated[CHOOSE i \in 1..Len(values) :
                               validated[i].raised /\ \A j \in 1..(i - 1) : ~validated[j].raised].err,
                   value |-> <<>>]
             ELSE [none |-> FALSE, err |-> "", value |-> [i \in 1..Len(values) |-> validated[i].value]]

\* The match loop shared by select, update and delete.
Matches(record, items) ==
    \A i \in 1..Len(items) :
        items[i].col \in DOMAIN record /\ PyEq(record[items[i].col], items[i].val)

\* Variants of select, update and delete with one fault each.
\* A filter column the record does not contain is passed over.
select_AbsentMatches(table_data, where) ==
    IF where.none THEN table_data
    ELSE LET match(record) ==
                 \A i \in 1..Len(where.items) :
                     where.items[i].col \in DOMAIN record
                         => PyEq(record[where.items[i].col], where.items[i].val)
         IN  SelectSeq(table_data, match)

\* The SET values are assigned whether or not the record has the column.
update_AddsColumns(table_data, set_items, where) ==
    IF where.none /\ table_data # <<>>
    THEN [none |-> TRUE, err |-> "Unexpected", value |-> <<>>, count |-> 0]
    ELSE LET assigned(record) ==
                 [c \in DOMAIN record \cup {set_items[k].col : k \in 1..Len(set_items)} |->
                     IF \E k \in 1..Len(set_items) : set_items[k].col = c
                     THEN set_items[CHOOSE k \in 1..Len(set_items) : set_items[k].col = c].val
                     ELSE record[c]]
             updated_data == [i \in 1..Len(table_data) |->
                                 IF Matches(table_data[i], where.items)
                                 THEN assigned(table_data[i])
                                 ELSE table_data[i]]
             updated_count == Cardinality({i \in 1..Len(table_data) : Matches(table_data[i], where.items)})
         IN  IF updated_count = 0
             THEN [none |-> TRUE, err |-> "NoRecordsAffected", value |-> <<>>, count |-> 0]
             ELSE [none |-> FALSE, err |-> "", value |-> updated_data, count |-> updated_count]

\* The count is not looked at: with no match the data comes back with count 0.
update_NoZeroCheck(table_data, set_items, where) ==
    IF where.none /\ table_data # <<>>
    THEN [none |-> TRUE, err |-> "Unexpected", value |-> <<>>, count |-> 0]
    ELSE LET updated_data == [i \in 1..Len(table_data) |->
                                 IF Matches(table_data[i], where.items)
                                 THEN [c \in DOMAIN table_data[i] |->
                                          IF \E k \in 1..Len(set_items) : set_items[k].col = c
                                          THEN set_items[CHOOSE k \in 1..Len(set_items) : set_items[k].col = c].val
                                          ELSE table_data[i][c]]
                                 ELSE table_data[i]]
             updated_count == Cardinality({i \in 1..Len(table_data) : Matches(table_data[i], where.items)})
         IN  [none |-> FALSE, err |-> "", value |-> updated_data, count |-> updated_count]

\* The loop stops after the first record it removes.
delete_StopsAtFirst(table_data, where, confirmation) ==
    IF ~Confirmed(confirmation)
    THEN [none |-> TRUE, err |-> "Cancelled", value |-> <<>>, count |-> 0]
    ELSE IF where.none /\ table_data # <<>>
    THEN [none |-> TRUE, err |-> "Unexpected", value |-> <<>>, count |-> 0]
    ELSE LET hits == {i \in 1..Len(table_data) : Matches(table_data[i], where.items)}
             first == CHOOSE i \in hits : \A j \in hits : i <= j
         IN  IF hits = {}
             THEN [none |-> TRUE, err |-> "NoRecordsAffected", value |-> <<>>, count |-> 0]
             ELSE [none |-> FALSE, err |-> "",
                   value |-> SubSeq(table_data, 1, first - 1) \o SubSeq(table_data, first + 1, Len(table_data)),
                   count |-> 1]

\* select: where.none stands for where_clause=None
select(table_data, where) ==
    IF where.none THEN table_data
    ELSE LET match(record) == Matches(record, where.items) IN SelectSeq(table_data, match)

\* Which dict objects select returns: element j is the position in table_data
\* of the object that is also the j-th returned row, or 0 when the j-th
\* returned row is a new dict.  table_data.copy() copies the list and keeps
\* its elements; record.copy() makes a new dict of the same values.
select_shared(table_data, where) ==
    IF where.none THEN [i \in 1..Len(table_data) |-> i]
    ELSE [j \in 1..Len(select(table_data, where)) |-> 0]

\* The SET loop of update on one matching record
RECURSIVE ApplySet(_, _)
ApplySet(record, items) ==
    IF items = <<>> THEN record
    ELSE ApplySet(IF items[1].col \in DOMAIN record
                  THEN [record EXCEPT ![items[1].col] = items[1].val]
                  ELSE record,
                  Tail(items))

MatchCount(table_data, items) == Cardinality({i \in 1..Len(table_data) : Matches(table_data[i], items)})

\* update: where.none makes where_clause.items() raise, which the wrapper traps
\* (for a non-empty table_data; with no record the loop body never runs).
update(table_data, set_items, where) ==
    IF where.none /\ table_data # <<>>
    THEN [none |-> TRUE, err |-> "Unexpected", value |-> <<>>, count |-> 0]
    ELSE LET updated_data == [i \in 1..Len(table_data) |->
                                 IF Matches(table_data[i], where.items)
                                 THEN ApplySet(table_data[i], set_items)
                                 ELSE table_data[i]]
             updated_count == MatchCount(table_data, where.items)
         IN  IF updated_count = 0
             THEN [none |-> TRUE, err |-> "NoRecordsAffected", value |-> <<>>, count |-> 0]
             ELSE [none |-> FALSE, err |-> "", value |-> updated_data, count |-> updated_count]

delete(table_data, where, confirmation) ==
    IF ~Confirmed(confirmation)
    THEN [none |-> TRUE, err |-> "Cancelled", value |-> <<>>, count |-> 0]
    ELSE IF where.none /\ table_data # <<>>
    THEN [none |-> TRUE, err |-> "Unexpected", value |-> <<>>, count |-> 0]
    ELSE LET nomatch(record) == ~Matches(record, where.items)
             updated_data == SelectSeq(table_data, nomatch)
             deleted_count == MatchCount(table_data, where.items)
         IN  IF deleted_count = 0
             THEN [none |-> TRUE, err |-> "NoRecordsAffected", value |-> <<>>, count |-> 0]
             ELSE [none |-> FALSE, err |-> "", value |-> updated_data, count |-> deleted_count]

\* A variant of info with a fault: the name is not looked up in the catalog.
info_NoLookup(metadata, table_name, table_data) ==
    [none |-> FALSE, err |-> "", columns |-> <<>>, record_count |-> Len(table_data)]

info(metadata, table_name, table_data) ==
    IF ~InCatalog(metadata, table_name)
    THEN [none |-> TRUE, err |-> "UnknownTable", columns |-> <<>>, record_count |-> 0]
    ELSE [none |-> FALSE, err |-> "", columns |-> CatalogGet(metadata, table_name),
          record_count |-> Len(table_data)]

(***************************************************************************)
(* utils.py, the persistence gateway: the catalog file and one row file    *)
(* per table name.  A table that was never saved loads as the empty list.  *)
(***************************************************************************)
load_metadata(file) == file
save_metadata(file, metadata) == metadata
load_table_data(files, table_name) == files[table_name]
save_table_data(files, table_name, table_data) == [files EXCEPT ![table_name] = table_data]

(***************************************************************************)
(* decorators.py: create_cacher.  The cache dict is a set of [key, value]  *)
(* entries with distinct keys.                                             *)
(***************************************************************************)
CacheHas(c, key) == \E e \in c : e.key = key
CacheGet(c, key) == (CHOOSE e \in c : e.key = key).value
\* cache_result: the cached value when the key is present, else the computed
\* value, which is stored; value is what it returns, cache the dict afterwards.
cache_result(c, key, computed) ==
    IF CacheHas(c, key) THEN [value |-> CacheGet(c, key), cache |-> c]
    ELSE [value |-> computed, cache |-> c \cup {[key |-> key, value |-> computed]}]
\* A variant of clear_cache with a fault: the entries are kept.
clear_cache_Keeps(c) == c
clear_cache(c) == {}

(***************************************************************************)
(* Inputs of the interpreter: what the user types, after tokenization.     *)
(***************************************************************************)
\* the table names the commands of the interpreter name
TableNames == {"users"}

v_int == <<"v",":","i","n","t">>
ID_str == <<"I","D",":","s","t","r">>
v_bare == <<"v">>
v_float == <<"v",":","f","l","o","a","t">>
\* args[2:] of create_table
ColumnLists == {<<v_int>>, <<ID_str>>, <<v_bare>>, <<v_int, v_float>>, <<>>}

Tok1 == <<"1">>
TokTrue == <<"t","r","u","e">>
TokX == <<"x">>
\* values_args of insert
ValueLists == {<<Tok1>>, <<TokTrue>>, <<TokX>>, <<Tok1, Tok1>>}

\* where_str of select, update and delete
WhereID1 == <<"I","D"," ","="," ","1">>
WhereVTrue == <<"v"," ","="," ","t","r","u","e">>
WhereBare == <<"v">>
WhereTexts == {WhereID1, WhereVTrue, WhereBare}
\* where_str of select: the empty text when the command has no where part
SelectTexts == {WhereID1, WhereBare, <<>>}

\* the parts of the text between set and where of update
SetID1 == <<ID, <<"=">>, Tok1>>
SetVX == <<<<"v">>, <<"=">>, TokX>>
SetParts == {SetID1, SetVX}

\* answers to the confirmation prompt
Answers == {<<"Y">>, <<"n">>}

(***************************************************************************)
(* engine.py: run().  One action per command branch of the loop; each      *)
(* iteration first reloads the catalog.  pc is "prompt" while the loop     *)
(* runs, "exited" after exit and "crashed" when an exception left run().   *)
(* last records the command of the latest iteration and how it ended.      *)
(***************************************************************************)
NoCall == [fn |-> "none"]

Init ==
    /\ metaFile = <<>>
    /\ dataFiles = [n \in TableNames |-> <<>>]
    /\ cache = {}
    /\ pc = "prompt"
    /\ last = [cmd |-> "", table |-> "", status |-> ""]
    /\ call = NoCall

Done(cmd, table_name, status) == last' = [cmd |-> cmd, table |-> table_name, status |-> status]

Status(result) == IF result.none THEN result.err ELSE "ok"

CmdCreateTable(table_name, columns) ==
    /\ pc = "prompt"
    /\ LET metadata == load_metadata(metaFile)
           result == create_table(metadata, table_name, columns)
       IN  IF Len(columns) < 1
           THEN /\ Done("create_table", table_name, "Format")
                /\ UNCHANGED metaFile
           ELSE /\ metaFile' = IF result.none THEN metaFile ELSE save_metadata(metaFile, result.value)
                /\ Done("create_table", table_name, Status(result))
    /\ UNCHANGED <<dataFiles, cache, pc, call>>

CmdDropTable(table_name, confirmation) ==
    /\ pc = "prompt"
    /\ LET metadata == load_metadata(metaFile)
           result == drop_table(metadata, table_name, confirmation)
       IN  /\ metaFile' = IF result.none THEN metaFile ELSE save_metadata(metaFile, result.value)
           /\ Done("drop_table", table_name, Status(result))
    /\ UNCHANGED <<dataFiles, cache, pc, call>>

CmdListTables ==
    /\ pc = "prompt"
    /\ Done("list_tables", "", "ok")
    /\ UNCHANGED <<metaFile, dataFiles, cache, pc, call>>

\* max(record.get('ID', 0) for record in table_data): numbers compare by value,
\* a str among the IDs makes the comparison (or the + 1 after it) raise TypeError.
IdOf(record) == IF ID \in DOMAIN record THEN record[ID] ELSE PyInt(0)
MaxIdRaises(table_data) == \E i \in 1..Len(table_data) : IdOf(table_data[i]).t = "str"
MaxIdOf(table_data) ==
    CHOOSE m \in {IdOf(table_data[i]).n : i \in 1..Len(table_data)} :
        \A i \in 1..Len(table_data) : IdOf(table_data[i]).n <= m

\* new_record: {'ID': new_id}, then each data column assigned in schema order
RECURSIVE BuildRecord(_, _, _)
BuildRecord(record, data_columns, validated_values) ==
    IF data_columns = <<>> THEN record
    ELSE LET col_name == data_columns[1].name
             assigned == [c \in DOMAIN record \cup {col_name} |->
                             IF c = col_name THEN validated_values[1] ELSE record[c]]
         IN  BuildRecord(assigned, Tail(data_columns), Tail(validated_values))

NewId(table_data) == IF table_data # <<>> THEN MaxIdOf(table_data) + 1 ELSE 1

\* A variant of the insert branch with a fault: the record is appended and
\* saved before the outcome of the validation is looked at.
CmdInsertSavesFirst(table_name, values_args) ==
    /\ pc = "prompt"
    /\ LET metadata == load_metadata(metaFile)
           values == [i \in 1..Len(values_args) |-> convert_value(values_args[i])]
           table_data == load_table_data(dataFiles, table_name)
           validated_values == insert(metadata, table_name, values)
       IN  /\ table_data = <<>> \/ ~MaxIdRaises(table_data)
           /\ Len(table_data) < MaxRows
           /\ NewId(table_data) <= MaxId
           /\ dataFiles' = save_table_data(dataFiles, table_name,
                               Append(table_data, [c \in {ID} |-> PyInt(NewId(table_data))]))
           /\ cache' = clear_cache(cache)
           /\ Done("insert", table_name, Status(validated_values))
           /\ UNCHANGED pc
    /\ UNCHANGED <<metaFile, call>>

CmdInsert(table_name, values_args) ==
    /\ pc = "prompt"
    /\ LET metadata == load_metadata(metaFile)
           values == [i \in 1..Len(values_args) |-> convert_value(values_args[i])]
           table_data == load_table_data(dataFiles, table_name)
           validated_values == insert(metadata, table_name, values)
       IN  IF validated_values.none
           THEN /\ Done("insert", table_name, validated_values.err)
                /\ UNCHANGED <<dataFiles, cache, pc>>
           ELSE IF table_data # <<>> /\ MaxIdRaises(table_data)
           THEN /\ Done("insert", table_name, "Crash")
                /\ pc' = "crashed"
                /\ UNCHANGED <<dataFiles, cache>>
           ELSE LET new_id == NewId(table_data)
                    columns == get_column_schema(metadata, table_name).value
                    new_record == BuildRecord([c \in {ID} |-> PyInt(new_id)],
                                              Tail(columns), validated_values.value)
                IN  /\ Len(table_data) < MaxRows
                    /\ new_id <= MaxId
                    /\ dataFiles' = save_table_data(dataFiles, table_name, Append(table_data, new_record))
                    /\ cache' = clear_cache(cache)
                    /\ Done("insert", table_name, "ok")
                    /\ UNCHANGED pc
    /\ UNCHANGED <<metaFile, call>>

\* the cache key (table_name, str(where_clause) if where_clause else None):
\* str() of a dict is one-to-one on these dicts, so the dict stands for its text.
CacheKey(table_name, where) == [table |-> table_name, where |-> where]

CmdSelect(table_name, where_str) ==
    /\ pc = "prompt"
    /\ LET metadata == load_metadata(metaFile)
           where == parse_where_clause(where_str)
           table_data == load_table_data(dataFiles, table_name)
           result == cache_result(cache, CacheKey(table_name, where), select(table_data, where))
       IN  IF where.raised
           THEN /\ Done("select", table_name, "Format")
                /\ UNCHANGED <<cache, pc>>
           ELSE /\ cache' = result.cache
                /\ IF get_column_schema(metadata, table_name).raised
                   THEN /\ Done("select", table_name, "Crash")
                        /\ pc' = "crashed"
                   ELSE /\ Done("select", table_name, "ok")
                        /\ UNCHANGED pc
    /\ UNCHANGED <<metaFile, dataFiles, call>>

CmdUpdate(table_name, set_parts, where_str) ==
    /\ pc = "prompt"
    /\ LET set_clause == parse_set_clause(set_parts)
           where == parse_where_clause(where_str)
           table_data == load_table_data(dataFiles, table_name)
           result == update(table_data, set_clause.items, where)
       IN  IF set_clause.raised \/ where.raised
           THEN /\ Done("update", table_name, "Format")
                /\ UNCHANGED <<dataFiles, cache>>
           ELSE IF result.none
           THEN /\ Done("update", table_name, result.err)
                /\ UNCHANGED <<dataFiles, cache>>
           ELSE /\ dataFiles' = save_table_data(dataFiles, table_name, result.value)
                /\ cache' = clear_cache(cache)
                /\ Done("update", table_name, "ok")
    /\ UNCHANGED <<metaFile, pc, call>>

CmdDelete(table_name, where_str, confirmation) ==
    /\ pc = "prompt"
    /\ where_str # <<>>
    /\ LET where == parse_where_clause(where_str)
           table_data == load_table_data(dataFiles, table_name)
           result == delete(table_data, where, confirmation)
       IN  IF where.raised
           THEN /\ Done("delete", table_name, "Format")
                /\ UNCHANGED <<dataFiles, cache>>
           ELSE IF result.none
           THEN /\ Done("delete", table_name, result.err)
                /\ UNCHANGED <<dataFiles, cache>>
           ELSE /\ dataFiles' = save_table_data(dataFiles, table_name, result.value)
                /\ cache' = clear_cache(cache)
                /\ Done("delete", table_name, "ok")
    /\ UNCHANGED <<metaFile, pc, call>>

CmdInfo(table_name) ==
    /\ pc = "prompt"
    /\ LET metadata == load_metadata(metaFile)
           table_data == load_table_data(dataFiles, table_name)
       IN  Done("info", table_name, Status(info(metadata, table_name, table_data)))
    /\ UNCHANGED <<metaFile, dataFiles, cache, pc, call>>

CmdHelp ==
    /\ pc = "prompt"
    /\ Done("help", "", "ok")
    /\ UNCHANGED <<metaFile, dataFiles, cache, pc, call>>

CmdExit ==
    /\ pc = "prompt"
    /\ pc' = "exited"
    /\ Done("exit", "", "ok")
    /\ UNCHANGED <<metaFile, dataFiles, cache, call>>

Next ==
    \/ \E t \in TableNames, cols \in ColumnLists : CmdCreateTable(t, cols)
    \/ \E t \in TableNames, a \in Answers : CmdDropTable(t, a)
    \/ CmdListTables
    \/ \E t \in TableNames, vals \in ValueLists : CmdInsert(t, vals)
    \/ \E t \in TableNames, w \in SelectTexts : CmdSelect(t, w)
    \/ \E t \in TableNames, sp \in SetParts, w \in WhereTexts \cup {<<>>} : CmdUpdate(t, sp, w)
    \/ \E t \in TableNames, w \in WhereTexts, a \in Answers : CmdDelete(t, w, a)
    \/ \E t \in TableNames : CmdInfo(t)
    \/ CmdHelp
    \/ CmdExit

Spec == Init /\ [][Next]_vars

(***************************************************************************)
(* create_table called on its own: the catalog, the name and the column    *)
(* specs are drawn from bounded sets, CallCreateTable applies the function *)
(* and call records what it returned and what became of the argument.      *)
(***************************************************************************)
MaxTables == 2
MaxColumns == 2

w_str == <<"w",":","s","t","r">>
b_bool == <<"b",":","b","o","o","l">>
CatalogNames == {"users", "logs", "tmp"}
StoredSchemas == {<<ID_int, v_int>>, <<ID_int, w_str>>}
CreateSpecs == {v_int, w_str, b_bool, ID_str, v_bare, v_float}

SeqsUpTo(S, n) == UNION {[1..k -> S] : k \in 0..n}
Catalogs ==
    {m \in SeqsUpTo([name : CatalogNames, cols : StoredSchemas], MaxTables) :
        \A i, j \in 1..Len(m) : i # j => m[i].name # m[j].name}

NoResult == [none |-> FALSE, err |-> "", value |-> <<>>, arg |-> <<>>]

InitCreate ==
    /\ metaFile = <<>>
    /\ dataFiles = [n \in TableNames |-> <<>>]
    /\ cache = {}
    /\ pc = "prompt"
    /\ last = [cmd |-> "", table |-> "", status |-> ""]
    /\ \E m \in Catalogs, t \in CatalogNames, cols \in SeqsUpTo(CreateSpecs, MaxColumns) :
          call = [fn |-> "create_table", done |-> FALSE, metadata |-> m,
                  table_name |-> t, columns |-> cols, result |-> NoResult]

CallCreateTable ==
    /\ call.fn = "create_table"
    /\ ~call.done
    /\ call' = [call EXCEPT !.done = TRUE,
                            !.result = create_table(call.metadata, call.table_name, call.columns)]
    /\ UNCHANGED <<metaFile, dataFiles, cache, pc, last>>

NextCreate == CallCreateTable

SpecCreate == InitCreate /\ [][NextCreate]_vars

(***************************************************************************)
(* insert called on its own: a catalog holding at most the table users, a  *)
(* table name and a list of typed values are drawn, CallInsert applies the *)
(* function and call records what it returned.                             *)
(***************************************************************************)
MaxValues == 2

InsertSchemas == {<<ID_int>>, <<ID_int, v_int>>, <<ID_int, w_str>>,
                  <<ID_int, v_int, w_str>>, <<ID_int, b_bool, v_int>>, <<ID_int, ID_str>>}
InsertCatalogs == {<<>>} \cup {<<[name |-> "users", cols |-> cols]>> : cols \in InsertSchemas}
\* the values convert_value can hand over: int, bool, and str
PyValues == {PyInt(1), PyInt(0), PyBool(TRUE), PyBool(FALSE), PyStr(<<"x">>), PyStr(<<"7">>)}

InitInsert ==
    /\ metaFile = <<>>
    /\ dataFiles = [n \in TableNames |-> <<>>]
    /\ cache = {}
    /\ pc = "prompt"
    /\ last = [cmd |-> "", table |-> "", status |-> ""]
    /\ \E m \in InsertCatalogs, t \in {"users", "logs"}, vals \in SeqsUpTo(PyValues, MaxValues) :
          call = [fn |-> "insert", done |-> FALSE, metadata |-> m,
                  table_name |-> t, values |-> vals,
                  result |-> [none |-> FALSE, err |-> "", value |-> <<>>]]

CallInsert ==
    /\ call.fn = "insert"
    /\ ~call.done
    /\ call' = [call EXCEPT !.done = TRUE,
                            !.result = insert(call.metadata, call.table_name, call.values)]
    /\ UNCHANGED <<metaFile, dataFiles, cache, pc, last>>

NextInsert == CallInsert

SpecInsert == InitInsert /\ [][NextInsert]_vars

(***************************************************************************)
(* validate_value_type called on its own: a value and the text of a type   *)
(* are drawn, CallValidate applies the function.                           *)
(***************************************************************************)
CoerceTexts == {<<"x">>, <<"7">>, <<"-","7">>, <<"+","3">>, <<" ","5">>, <<"1","_","0">>,
                <<"4","x">>, <<>>, <<"t","r","u","e">>, <<"T","r","u","e">>,
                <<"F","A","L","S","E">>, <<"1",".","5">>}
CoerceValues == {PyInt(0 - 1), PyInt(0), PyInt(1), PyInt(42), PyBool(TRUE), PyBool(FALSE)}
                    \cup {PyStr(t) : t \in CoerceTexts}
CoerceTypes == VALID_TYPES \cup {<<"f","l","o","a","t">>}

InitCoerce ==
    /\ metaFile = <<>>
    /\ dataFiles = [n \in TableNames |-> <<>>]
    /\ cache = {}
    /\ pc = "prompt"
    /\ last = [cmd |-> "", table |-> "", status |-> ""]
    /\ \E v \in CoerceValues, ty \in CoerceTypes :
          call = [fn |-> "validate_value_type", done |-> FALSE, value |-> v, expected_type |-> ty,
                  result |-> [raised |-> FALSE, err |-> "", value |-> v]]

CallValidate ==
    /\ call.fn = "validate_value_type"
    /\ ~call.done
    /\ call' = [call EXCEPT !.done = TRUE,
                            !.result = validate_value_type(call.value, call.expected_type)]
    /\ UNCHANGED <<metaFile, dataFiles, cache, pc, last>>

NextCoerce == CallValidate

SpecCoerce == InitCoerce /\ [][NextCoerce]_vars

(***************************************************************************)
(* select, update and delete called on their own: a row collection and a   *)
(* filter are drawn, one of the functions is applied to them.  table_data  *)
(* is the collection as it was passed, arg the same list object as it is   *)
(* now; ChangeReturnedRow is the caller assigning to a field of a row that *)
(* select returned.                                                        *)
(***************************************************************************)
MaxDrawnRows == 3

v_col == <<"v">>
z_col == <<"z">>
Row(id, val) == [c \in {ID, v_col} |-> IF c = ID THEN PyInt(id) ELSE val]
IdRow(id) == [c \in {ID} |-> PyInt(id)]
DrawnRows == {Row(1, PyInt(1)), Row(2, PyBool(TRUE)), Row(2, PyInt(0)),
              Row(3, PyBool(FALSE)), Row(3, PyStr(<<"1">>)), IdRow(1)}

Filter(items) == [none |-> FALSE, items |-> items]
NoFilter == [none |-> TRUE, items |-> <<>>]
Filters == {NoFilter, Filter(<<>>),
            Filter(<<[col |-> v_col, val |-> PyInt(1)]>>),
            Filter(<<[col |-> v_col, val |-> PyBool(TRUE)]>>),
            Filter(<<[col |-> v_col, val |-> PyInt(0)]>>),
            Filter(<<[col |-> v_col, val |-> PyStr(<<"1">>)]>>),
            Filter(<<[col |-> ID, val |-> PyInt(2)]>>),
            Filter(<<[col |-> ID, val |-> PyInt(2)], [col |-> v_col, val |-> PyInt(0)]>>),
            Filter(<<[col |-> z_col, val |-> PyInt(1)]>>)}
SetClauses == {<<[col |-> v_col, val |-> PyInt(5)]>>,
               <<[col |-> ID, val |-> PyInt(9)]>>,
               <<[col |-> z_col, val |-> PyInt(1)], [col |-> v_col, val |-> PyStr(<<"x">>)]>>}
NoRowsResult == [none |-> FALSE, err |-> "", value |-> <<>>, count |-> 0]

InitRows ==
    /\ metaFile = <<>>
    /\ dataFiles = [n \in TableNames |-> <<>>]
    /\ cache = {}
    /\ pc = "prompt"
    /\ last = [cmd |-> "", table |-> "", status |-> ""]
    /\ \E rows \in SeqsUpTo(DrawnRows, MaxDrawnRows), w \in Filters :
          call = [fn |-> "rows", done |-> FALSE, table_data |-> rows, where |-> w,
                  set_clause |-> <<>>, confirmation |-> <<>>, result |-> NoRowsResult,
                  shared |-> <<>>, arg |-> rows, changed |-> FALSE]

CallSelect ==
    /\ call.fn = "rows"
    /\ call' = [call EXCEPT !.fn = "select", !.done = TRUE,
                            !.result = [NoRowsResult EXCEPT !.value = select(call.table_data, call.where)],
                            !.shared = select_shared(call.table_data, call.where)]
    /\ UNCHANGED <<metaFile, dataFiles, cache, pc, last>>

CallUpdate ==
    /\ call.fn = "rows"
    /\ \E sc \in SetClauses :
          call' = [call EXCEPT !.fn = "update", !.done = TRUE, !.set_clause = sc,
                               !.result = update(call.table_data, sc, call.where)]
    /\ UNCHANGED <<metaFile, dataFiles, cache, pc, last>>

CallDelete ==
    /\ call.fn = "rows"
    /\ \E a \in Answers :
          call' = [call EXCEPT !.fn = "delete", !.done = TRUE, !.confirmation = a,
                               !.result = delete(call.table_data, call.where, a)]
    /\ UNCHANGED <<metaFile, dataFiles, cache, pc, last>>

\* returned[j][column] = 9 by the caller of select: the dict assigned to is
\* also an element of the list passed in when select shared it.
ChangeReturnedRow ==
    /\ call.fn = "select"
    /\ ~call.changed
    /\ \E j \in 1..Len(call.result.value) :
          \E c \in DOMAIN call.result.value[j] :
             call' = [call EXCEPT !.changed = TRUE,
                                  !.result.value[j][c] = PyInt(9),
                                  !.arg = IF call.shared[j] = 0 THEN @
                                          ELSE [@ EXCEPT ![call.shared[j]][c] = PyInt(9)]]
    /\ UNCHANGED <<metaFile, dataFiles, cache, pc, last>>

NextRows == CallSelect \/ CallUpdate \/ CallDelete \/ ChangeReturnedRow

SpecRows == InitRows /\ [][NextRows]_vars

(***************************************************************************)
(* drop_table called on its own: a catalog of up to three tables, a name   *)
(* and the answer to the confirmation prompt are drawn.                    *)
(***************************************************************************)
DropCatalogs ==
    {m \in SeqsUpTo([name : CatalogNames, cols : StoredSchemas], Cardinality(CatalogNames)) :
        \A i, j \in 1..Len(m) : i # j => m[i].name # m[j].name}

InitDrop ==
    /\ metaFile = <<>>
    /\ dataFiles = [n \in TableNames |-> <<>>]
    /\ cache = {}
    /\ pc = "prompt"
    /\ last = [cmd |-> "", table |-> "", status |-> ""]
    /\ \E m \in DropCatalogs, t \in CatalogNames, a \in Answers \cup {<<"y">>} :
          call = [fn |-> "drop_table", done |-> FALSE, metadata |-> m,
                  table_name |-> t, confirmation |-> a, result |-> NoResult]

CallDropTable ==
    /\ call.fn = "drop_table"
    /\ ~call.done
    /\ call' = [call EXCEPT !.done = TRUE,
                            !.result = drop_table(call.metadata, call.table_name, call.confirmation)]
    /\ UNCHANGED <<metaFile, dataFiles, cache, pc, last>>

NextDrop == CallDropTable

SpecDrop == InitDrop /\ [][NextDrop]_vars

(***************************************************************************)
(* run() fed the commands of the users scenario, in any order and any      *)
(* number of times: the loop of engine.py with these command lines as the  *)
(* only inputs.                                                            *)
(***************************************************************************)
name_col == <<"n","a","m","e">>
age_col == <<"a","g","e">>
name_str == name_col \o <<":">> \o <<"s","t","r">>
age_int == age_col \o <<":">> \o <<"i","n","t">>
TokSergei == <<"S","e","r","g","e","i">>
TokIvan == <<"I","v","a","n">>
Tok28 == <<"2","8">>
Tok25 == <<"2","5">>
Tok29 == <<"2","9">>
WhereAge28 == age_col \o <<" ","="," ">> \o Tok28
WhereAge25 == age_col \o <<" ","="," ">> \o Tok25
WhereNameSergei == name_col \o <<" ","="," ">> \o TokSergei
SetAge29 == <<age_col, <<"=">>, Tok29>>

NextUsers ==
    \/ CmdCreateTable("users", <<name_str, age_int>>)
    \/ CmdInsert("users", <<TokSergei, Tok28>>)
    \/ CmdInsert("users", <<TokIvan, Tok25>>)
    \/ CmdSelect("users", WhereAge28)
    \/ CmdUpdate("users", SetAge29, WhereNameSergei)
    \/ CmdDelete("users", WhereAge25, <<"y">>)
    \/ CmdDropTable("users", <<"y">>)
    \/ CmdInfo("users")

SpecUsers == Init /\ [][NextUsers]_vars

(***************************************************************************)
(* run() fed the commands of the users scenario with the confirmation      *)
(* prompts of drop_table and delete answered in every way.                 *)
(***************************************************************************)
AnswerTexts == {<<"y">>, <<"Y">>, <<"n">>, <<"N">>, <<"y","e","s">>, <<" ","y">>, <<>>}

NextAnswers ==
    \/ CmdCreateTable("users", <<name_str, age_int>>)
    \/ CmdInsert("users", <<TokSergei, Tok28>>)
    \/ CmdInsert("users", <<TokIvan, Tok25>>)
    \/ CmdSelect("users", WhereAge28)
    \/ \E a \in AnswerTexts : CmdDelete("users", WhereAge25, a)
    \/ \E a \in AnswerTexts : CmdDropTable("users", a)

SpecAnswers == Init /\ [][NextAnswers]_vars

(***************************************************************************)
(* An insert followed by a select with the same token, as run() performs   *)
(* them: a one-column table users and a token are drawn, the insert branch *)
(* converts, validates and builds the row of the empty table, the select   *)
(* branch parses "c = token" and selects from the rows then held.          *)
(***************************************************************************)
c_col == <<"c">>
RoundTripTypes == VALID_TYPES
RoundTripTokens ==
    {<<"4","2">>, <<"0">>, <<"1">>, <<"-","7">>, <<"+","3">>, <<"0","0","7">>, <<"1","_","0">>,
     <<"t","r","u","e">>, <<"T","r","u","e">>, <<"F","A","L","S","E">>, <<"f","a","l","s","e">>,
     <<"x">>, <<"a","b","c">>, <<"4","x">>, <<"'","a","'">>, <<"\"","b","\"">>,
     <<"y","e","s">>, <<"2",".","5">>, TokSergei, <<"T">>}

InitRoundTrip ==
    /\ metaFile = <<>>
    /\ dataFiles = [n \in TableNames |-> <<>>]
    /\ cache = {}
    /\ pc = "prompt"
    /\ last = [cmd |-> "", table |-> "", status |-> ""]
    /\ \E ty \in RoundTripTypes, tok \in RoundTripTokens :
          call = [fn |-> "insert_select", done |-> FALSE,
                  metadata |-> <<[name |-> "users", cols |-> <<ID_int, c_col \o <<":">> \o ty>>]>>,
                  token |-> tok, inserted |-> FALSE, table_data |-> <<>>, result |-> <<>>]

CallInsertThenSelect ==
    /\ call.fn = "insert_select"
    /\ ~call.done
    /\ LET values == <<convert_value(call.token)>>
           validated_values == insert(call.metadata, "users", values)
           columns == get_column_schema(call.metadata, "users").value
           new_record == BuildRecord([c \in {ID} |-> PyInt(NewId(<<>>))],
                                     Tail(columns), validated_values.value)
           table_data == IF validated_values.none THEN <<>> ELSE <<new_record>>
           where == parse_where_clause(c_col \o <<" ","="," ">> \o call.token)
       IN  call' = [call EXCEPT !.done = TRUE,
                                !.inserted = ~validated_values.none,
                                !.table_data = table_data,
                                !.result = select(table_data, where)]
    /\ UNCHANGED <<metaFile, dataFiles, cache, pc, last>>

NextRoundTrip == CallInsertThenSelect

SpecRoundTrip == InitRoundTrip /\ [][NextRoundTrip]_vars

(***************************************************************************)
(* Properties.                                                             *)
(***************************************************************************)
Range(seq) == {seq[i] : i \in 1..Len(seq)}
ColumnNameOf(column) == SplitFirst(column, ":")[1]
ColumnTypeOf(column) == SplitFirst(column, ":")[2]
ErrorKinds == {"DuplicateTable", "UnknownTable", "MalformedColumnSpec", "UnsupportedType",
               "InvalidValue", "ArityMismatch", "NoRecordsAffected"}
TypeText == [int |-> <<"i","n","t">>, bool |-> <<"b","o","o","l">>, str |-> <<"s","t","r">>]

\* C1: the ID values of the rows persisted for a table are pairwise distinct
\* positive integers, in every reachable state.
C1_IdsUniquePositive ==
    \A t \in TableNames :
        LET rows == dataFiles[t]
        IN  /\ \A i \in 1..Len(rows) :
                 ID \in DOMAIN rows[i] /\ rows[i][ID].t = "int" /\ rows[i][ID].n > 0
            /\ \A i, j \in 1..Len(rows) : i # j => rows[i][ID] # rows[j][ID]

\* C2: every row persisted for a table of the catalog has exactly the column
\* names of that table's schema.
C2_RowsMatchSchema ==
    \A e \in Range(metaFile) :
        \A r \in Range(dataFiles[e.name]) :
            DOMAIN r = {ColumnNameOf(c) : c \in Range(e.cols)}

\* C3: every value stored in a row has the primitive type its column declares
\* (an int column holds an int that is no bool, a bool column a bool, a str
\* column a str).
C3_ValuesTyped ==
    \A e \in Range(metaFile) :
        \A r \in Range(dataFiles[e.name]) :
            \A c \in Range(e.cols) :
                ColumnNameOf(c) \in DOMAIN r => TypeText[r[ColumnNameOf(c)].t] = ColumnTypeOf(c)

\* C4: a command that fails with one of the error kinds leaves the persisted
\* catalog and the persisted rows of every table as they were.
C4_FailedCommandKeepsState ==
    [][last'.status \in ErrorKinds => (metaFile' = metaFile /\ dataFiles' = dataFiles)]_vars

\* a failed update on a table that holds rows
C4_Witness ==
    /\ last.cmd = "update" /\ last.status = "NoRecordsAffected"
    /\ metaFile # <<>>
    /\ dataFiles["users"] # <<>>

\* C5: no command other than exit ends the interpreter: the loop of run() is
\* never left by an exception.
C5_NeverCrashes == pc # "crashed"

\* C6: with a name the catalog does not hold and column specs all of the form
\* name:type with type int, str or bool, create_table succeeds, keeps every
\* entry the catalog had in place and adds after them the name with the schema
\* 'ID:int' followed by the declared specs in their order.
SpecNames == {<<"v">>, <<"w">>, <<"b">>, ID}
WellFormedSpecs == {n \o <<":">> \o ty : n \in SpecNames, ty \in {TypeText.int, TypeText.str, TypeText.bool}}
C6_CreateStoresSchema ==
    (/\ call.fn = "create_table" /\ call.done
     /\ \A e \in Range(call.metadata) : e.name # call.table_name
     /\ \A c \in Range(call.columns) : c \in WellFormedSpecs)
    => LET v == call.result.value
       IN  /\ ~call.result.none
           /\ Len(v) = Len(call.metadata) + 1
           /\ \A i \in 1..Len(call.metadata) : v[i] = call.metadata[i]
           /\ v[Len(v)].name = call.table_name
           /\ v[Len(v)].cols = <<ID_int>> \o call.columns

\* a call that adds a two-column table to a catalog holding another table
C6_Witness ==
    /\ call.fn = "create_table" /\ call.done
    /\ Len(call.metadata) >= 1
    /\ \A e \in Range(call.metadata) : e.name # call.table_name
    /\ call.columns = <<w_str, v_int>>
    /\ ~call.result.none

\* C7: create_table with a name the catalog holds fails with DuplicateTable
\* whatever the column specs are, and the schema stored under the name stays.
C7_DuplicateRejected ==
    (/\ call.fn = "create_table" /\ call.done
     /\ \E e \in Range(call.metadata) : e.name = call.table_name)
    => /\ call.result.none
       /\ call.result.err = "DuplicateTable"
       /\ call.result.arg = call.metadata

\* a duplicate name given with a malformed column spec
C7_Witness ==
    /\ call.fn = "create_table" /\ call.done
    /\ \E e \in Range(call.metadata) : e.name = call.table_name
    /\ v_bare \in Range(call.columns)
    /\ call.result.none

C9_SchemasWellFormed ==
    \A e \in Range(metaFile) :
        /\ \A i, j \in 1..Len(e.cols) : i # j => ColumnNameOf(e.cols[i]) # ColumnNameOf(e.cols[j])
        /\ e.cols[1] = ID_int
        /\ Cardinality({i \in 1..Len(e.cols) : ColumnNameOf(e.cols[i]) = ID}) = 1

\* C10: a successful insert appends one row after the rows the table held,
\* leaves those unchanged, and the new row's ID is 1 for an empty table and
\* otherwise 1 + the largest ID of the rows held.
C10_InsertAssignsNextId ==
    [][(last'.cmd = "insert" /\ last'.status = "ok")
       => LET old == dataFiles[last'.table]
              new == dataFiles'[last'.table]
          IN  /\ Len(new) = Len(old) + 1
              /\ SubSeq(new, 1, Len(old)) = old
              /\ new[Len(new)][ID].t = "int"
              /\ IF old = <<>> THEN new[Len(new)][ID].n = 1
                 ELSE /\ \E i \in 1..Len(old) : new[Len(new)][ID].n = old[i][ID].n + 1
                      /\ \A i \in 1..Len(old) : new[Len(new)][ID].n > old[i][ID].n]_vars

C12_BoolRejectedForInt ==
    (call.fn = "validate_value_type" /\ call.done /\ call.expected_type = TypeText.int)
    => LET accepted == \/ call.value.t = "int"
                       \/ call.value.t = "str" /\ IsIntText(call.value.s)
       IN  /\ ~call.result.raised <=> accepted
           /\ call.result.raised => call.result.err = "InvalidValue"

\* the positions of the rows that contain every filter column with an equal
\* value, and the rows of a collection at a set of positions, in order
HitsOf(rows, items) ==
    {i \in 1..Len(rows) :
        \A k \in 1..Len(items) :
            items[k].col \in DOMAIN rows[i] /\ PyEq(rows[i][items[k].col], items[k].val)}
NthOf(I, j) == CHOOSE i \in I : Cardinality({k \in I : k < i}) = j - 1
RowsAt(rows, I) == [j \in 1..Cardinality(I) |-> rows[NthOf(I, j)]]

\* C13: select with no filter, or with a filter of zero entries, returns all
\* rows in stored order; with a filter it returns exactly the rows that
\* contain every filter column with an equal value, in stored order, so a row
\* lacking a filter column is left out (and nothing fails).
C13_SelectFilters ==
    (call.fn = "select" /\ ~call.changed)
    => IF call.where.none \/ call.where.items = <<>>
       THEN call.result.value = call.table_data
       ELSE call.result.value = RowsAt(call.table_data, HitsOf(call.table_data, call.where.items))

\* a two-entry filter that keeps the second of three rows, the first of which
\* lacks one of the filter columns
C13_Witness ==
    /\ call.fn = "select" /\ ~call.changed
    /\ call.table_data = <<IdRow(1), Row(2, PyInt(0)), Row(2, PyBool(TRUE))>>
    /\ Len(call.where.items) = 2
    /\ call.result.value = <<Row(2, PyInt(0))>>

\* the value the set clause gives a column (the clause is a dict: a column
\* occurs once)
SetValue(set_items, c) == set_items[CHOOSE k \in 1..Len(set_items) : set_items[k].col = c].val
SetColumns(set_items) == {set_items[k].col : k \in 1..Len(set_items)}

\* C14: when the filter of update matches k >= 1 rows, the collection returned
\* has the length and order of the input, the count returned is k, each
\* matching row keeps its columns and has the set-clause value in every column
\* the clause names and the row contains, and each other row equals the input.
C14_UpdateChangesMatching ==
    (call.fn = "update" /\ ~call.where.none
        /\ HitsOf(call.table_data, call.where.items) # {})
    => LET rows == call.table_data
           hits == HitsOf(rows, call.where.items)
           new == call.result.value
       IN  /\ ~call.result.none
           /\ call.result.count = Cardinality(hits)
           /\ Len(new) = Len(rows)
           /\ \A i \in 1..Len(rows) :
                 IF i \in hits
                 THEN /\ DOMAIN new[i] = DOMAIN rows[i]
                      /\ \A c \in DOMAIN rows[i] :
                            new[i][c] = IF c \in SetColumns(call.set_clause)
                                        THEN SetValue(call.set_clause, c)
                                        ELSE rows[i][c]
                 ELSE new[i] = rows[i]

\* two of three rows match; the clause names a column the rows lack
C14_Witness ==
    /\ call.fn = "update" /\ ~call.result.none
    /\ call.table_data = <<Row(2, PyInt(0)), Row(1, PyInt(1)), Row(2, PyBool(TRUE))>>
    /\ call.set_clause = <<[col |-> z_col, val |-> PyInt(1)], [col |-> v_col, val |-> PyStr(<<"x">>)]>>
    /\ call.result.count = 2
    /\ call.result.value = <<Row(2, PyStr(<<"x">>)), Row(1, PyInt(1)), Row(2, PyStr(<<"x">>))>>

\* C15: when the filter of a confirmed delete matches k >= 1 rows, the
\* collection returned is the input without the k matching rows, the other
\* rows in their order and unchanged, and the count returned is k.
C15_DeleteRemovesMatching ==
    (call.fn = "delete" /\ Confirmed(call.confirmation) /\ ~call.where.none
        /\ HitsOf(call.table_data, call.where.items) # {})
    => LET rows == call.table_data
           hits == HitsOf(rows, call.where.items)
       IN  /\ ~call.result.none
           /\ call.result.count = Cardinality(hits)
           /\ Len(call.result.value) = Len(rows) - Cardinality(hits)
           /\ call.result.value = RowsAt(rows, (1..Len(rows)) \ hits)

\* two of three rows match, the one between them stays
C15_Witness ==
    /\ call.fn = "delete" /\ ~call.result.none
    /\ call.table_data = <<Row(2, PyInt(0)), Row(1, PyInt(1)), Row(2, PyBool(TRUE))>>
    /\ call.result.count = 2
    /\ call.result.value = <<Row(1, PyInt(1))>>

\* the positions of the rows that contain every filter column with a value of
\* the same type and content as the filter's
TypedHitsOf(rows, items) ==
    {i \in 1..Len(rows) :
        \A k \in 1..Len(items) :
            items[k].col \in DOMAIN rows[i] /\ rows[i][items[k].col] = items[k].val}

\* C19: a filter value matches a row value only of its own type: select
\* returns, update changes and counts, and delete removes and counts exactly
\* the rows whose filter columns hold the filter's values with the same type
\* (integer 1, boolean true and string "1" are three different values).
C19_FilterDistinguishesTypes ==
    (call.fn \in {"select", "update", "delete"} /\ ~call.changed /\ ~call.where.none
        /\ (call.fn = "delete" => Confirmed(call.confirmation)))
    => LET typed == TypedHitsOf(call.table_data, call.where.items)
       IN  IF call.fn = "select"
           THEN call.result.value = RowsAt(call.table_data, typed)
           ELSE /\ call.result.none <=> typed = {}
                /\ call.result.count = Cardinality(typed)

\* C20: assigning to a field of a row that select returned, with a filter or
\* without one, changes no row of the collection that was passed to select,
\* so a second select on that collection returns what the first returned.
C20_SelectReturnsCopies ==
    (call.fn = "select" /\ call.changed)
    => /\ call.arg = call.table_data
       /\ select(call.arg, call.where) = select(call.table_data, call.where)

\* C16: an update, and a confirmed delete, whose filter matches no row of the
\* table's collection (an empty collection included) ends with
\* NoRecordsAffected, and the step leaves the persisted rows and the select
\* cache as they were.
C16_NoMatchChangesNothing ==
    [][LET unaffected == /\ last'.status = "NoRecordsAffected"
                         /\ dataFiles' = dataFiles
                         /\ cache' = cache
       IN  (last'.cmd \in {"update", "delete"} /\ ~unaffected)
           => \A t \in TableNames, w \in WhereTexts :
                 LET where == parse_where_clause(w)
                 IN  (~where.raised /\ ~where.none /\ HitsOf(dataFiles[t], where.items) = {})
                     => /\ \A sp \in SetParts :
                              (~parse_set_clause(sp).raised /\ CmdUpdate(t, sp, w)) => unaffected
                        /\ \A a \in Answers :
                              (Confirmed(a) /\ CmdDelete(t, w, a)) => unaffected]_vars

\* a delete that matched none of the rows held, with a select result cached
C16_Witness ==
    /\ last.cmd = "delete" /\ last.status = "NoRecordsAffected"
    /\ dataFiles["users"] # <<>>
    /\ cache # {}

\* C17: a confirmed drop_table fails with UnknownTable and leaves the catalog
\* alone when the catalog does not hold the name; otherwise the catalog it
\* returns is the one given without the entry of that name, every other entry
\* with its schema and in its place, so list_tables gives the other names in
\* their order.
C17_DropRemovesOneEntry ==
    (call.fn = "drop_table" /\ call.done /\ Confirmed(call.confirmation))
    => LET known == \E e \in Range(call.metadata) : e.name = call.table_name
           others == {i \in 1..Len(call.metadata) : call.metadata[i].name # call.table_name}
           r == call.result
       IN  IF ~known
           THEN r.none /\ r.err = "UnknownTable" /\ r.arg = call.metadata
           ELSE /\ ~r.none
                /\ Len(r.value) = Len(call.metadata) - 1
                /\ r.value = RowsAt(call.metadata, others)
                /\ list_tables(r.value) = RowsAt(list_tables(call.metadata), others)

\* the first of three tables is dropped and the other two stay in their order
C17_Witness ==
    /\ call.fn = "drop_table" /\ call.done /\ ~call.result.none
    /\ Len(call.metadata) = 3
    /\ call.metadata[1].name = call.table_name
    /\ call.metadata[2].cols # call.metadata[3].cols
    /\ call.result.value = <<call.metadata[2], call.metadata[3]>>

\* the states the scenario passes through: the catalog, the rows of users and
\* the select cache after each of its commands
UsersCatalog == <<[name |-> "users", cols |-> <<ID_int, name_str, age_int>>]>>
UserRow(id, name, age) ==
    [c \in {ID, name_col, age_col} |->
        IF c = ID THEN PyInt(id) ELSE IF c = name_col THEN PyStr(name) ELSE PyInt(age)]
Age28Key == CacheKey("users", [raised |-> FALSE, none |-> FALSE,
                               items |-> <<[col |-> age_col, val |-> PyInt(28)]>>])
Stored(catalog, rows, cached) ==
    /\ metaFile = catalog
    /\ dataFiles = [n \in TableNames |-> rows]
    /\ cache = cached
Succeeded(cmd) == last = [cmd |-> cmd, table |-> "users", status |-> "ok"]
Sergei28 == UserRow(1, TokSergei, 28)
Sergei29 == UserRow(1, TokSergei, 29)
Ivan25 == UserRow(2, TokIvan, 25)

\* C18: from the empty store, create_table users name:str age:int; insert
\* (Sergei, 28); insert (Ivan, 25); select where age = 28; update set age = 29
\* where name = Sergei; delete where age = 25; drop_table users; info users
\* give in turn: the schema stored, a row with ID 1, a row with ID 2, the one
\* row {ID 1, Sergei, 28} selected, row 1 alone changed to age 29, row 2 alone
\* removed, the table gone from the catalog, and info failing with UnknownTable.
C18_UsersScenario ==
    [][/\ (Stored(<<>>, <<>>, {}) /\ CmdCreateTable("users", <<name_str, age_int>>))
           => (Stored(UsersCatalog, <<>>, {}) /\ Succeeded("create_table"))'
       /\ (Stored(UsersCatalog, <<>>, {}) /\ CmdInsert("users", <<TokSergei, Tok28>>))
           => (Stored(UsersCatalog, <<Sergei28>>, {}) /\ Succeeded("insert"))'
       /\ (Stored(UsersCatalog, <<Sergei28>>, {}) /\ CmdInsert("users", <<TokIvan, Tok25>>))
           => (Stored(UsersCatalog, <<Sergei28, Ivan25>>, {}) /\ Succeeded("insert"))'
       /\ (Stored(UsersCatalog, <<Sergei28, Ivan25>>, {}) /\ CmdSelect("users", WhereAge28))
           => (/\ Stored(UsersCatalog, <<Sergei28, Ivan25>>,
                         {[key |-> Age28Key, value |-> <<Sergei28>>]})
               /\ Succeeded("select"))'
       /\ (/\ Stored(UsersCatalog, <<Sergei28, Ivan25>>, {[key |-> Age28Key, value |-> <<Sergei28>>]})
           /\ CmdUpdate("users", SetAge29, WhereNameSergei))
           => (Stored(UsersCatalog, <<Sergei29, Ivan25>>, {}) /\ Succeeded("update"))'
       /\ (Stored(UsersCatalog, <<Sergei29, Ivan25>>, {}) /\ CmdDelete("users", WhereAge25, <<"y">>))
           => (Stored(UsersCatalog, <<Sergei29>>, {}) /\ Succeeded("delete"))'
       /\ (Stored(UsersCatalog, <<Sergei29>>, {}) /\ CmdDropTable("users", <<"y">>))
           => (metaFile = <<>> /\ Succeeded("drop_table"))'
       /\ (metaFile = <<>> /\ Succeeded("drop_table") /\ CmdInfo("users"))
           => (last.cmd = "info" /\ last.status = "UnknownTable")']_vars

\* the end of the scenario: info has failed after the drop that followed the
\* delete, the update and the select
C18_Witness ==
    /\ last = [cmd |-> "info", table |-> "users", status |-> "UnknownTable"]
    /\ metaFile = <<>>
    /\ dataFiles["users"] = <<Sergei29>>
    /\ cache = {}

\* C21: the select cache is never stale: every entry it holds, which a select
\* with that table and filter would display, is the result of select on the
\* rows now persisted for the table.
C21_CacheNeverStale ==
    \A e \in cache :
        e.value = select(load_table_data(dataFiles, e.key.table), e.key.where)

\* filtered and unfiltered results are cached while the table holds two rows,
\* which takes a select after the latest change of the rows
C21_Witness ==
    /\ Cardinality(cache) = 2
    /\ Len(dataFiles["users"]) = 2
    /\ \E e \in cache : ~e.key.where.none /\ Len(e.value) = 1
    /\ last.cmd = "select" /\ last.status = "ok"

\* C22: when a successful create_table of a name follows a successful
\* drop_table of that name, the table created holds no rows: info counts 0
\* records, select returns nothing and the ID of the next insert is 1.
C22_DropInvalidatesRows ==
    [][(/\ last.cmd = "drop_table" /\ last.status = "ok"
        /\ last'.cmd = "create_table" /\ last'.status = "ok"
        /\ last'.table = last.table)
       => LET table_data == load_table_data(dataFiles', last'.table)
          IN  /\ info(load_metadata(metaFile'), last'.table, table_data).record_count = 0
              /\ select(table_data, NoFilter) = <<>>
              /\ NewId(table_data) = 1]_vars

\* C23: an update or a delete that names a table the catalog does not hold
\* leaves the persisted rows of every table as they were.
C23_UnknownTableRowsKept ==
    [][(/\ last'.cmd \in {"update", "delete"}
        /\ \A e \in Range(load_metadata(metaFile)) : e.name # last'.table)
       => dataFiles' = dataFiles]_vars

\* C24: when the prompt of drop_table or of delete is answered with anything
\* but y or Y, the command ends as cancelled, whether or not the catalog holds
\* the table and whether or not the filter matches a row, and the persisted
\* catalog, the persisted rows and the select cache stay as they were.
C24_RefusalChangesNothing ==
    [][LET cancelled == /\ last'.status = "Cancelled"
                        /\ metaFile' = metaFile
                        /\ dataFiles' = dataFiles
                        /\ cache' = cache
       IN  (last'.cmd \in {"drop_table", "delete"} /\ ~cancelled)
           => \A a \in AnswerTexts \ {<<"y">>, <<"Y">>} :
                 /\ CmdDropTable("users", a) => cancelled
                 /\ CmdDelete("users", WhereAge25, a) => cancelled]_vars

\* a delete refused while its filter matches no row held and a select result
\* is cached: the outcome is the cancellation, not NoRecordsAffected
C24_Witness ==
    /\ last = [cmd |-> "delete", table |-> "users", status |-> "Cancelled"]
    /\ dataFiles["users"] = <<Sergei28>>
    /\ cache # {}

\* C25: when the insert of a token into a column of type str, int or bool has
\* succeeded, the select whose filter is written with the same token returns
\* the row inserted.
C25_InsertThenFind ==
    (call.fn = "insert_select" /\ call.done /\ call.inserted)
    => call.result = call.table_data

====
